---- MODULE Spec2Model ----
(***************************************************************************)
(* A model of Zit (src/Zit.mjs): a content-addressed object store, a       *)
(* staging index, a linear commit chain and the per-file diff report of    *)
(* `show`.                                                                 *)
(*                                                                         *)
(* The repository is the directory .zit: the files HEAD and index and the  *)
(* files of .zit/objects.  A file's content is a text: a sequence of       *)
(* tokens (a token is a string; the text is their concatenation).  JSON is *)
(* written token by token, compact (JSON.stringify(v)) or pretty           *)
(* (JSON.stringify(v, null, 2)), and read back by a parser.                *)
(*                                                                         *)
(* Every command line invocation constructs a Zit, whose constructor       *)
(* starts init() without awaiting it, and then awaits the command.  An     *)
(* invocation therefore has two threads of awaits, the init thread and the *)
(* command thread; every await of an fs call is one atomic step.           *)
(***************************************************************************)
EXTENDS Integers, Sequences, FiniteSets, TLC

(***************************************************************************)
(* Bounds of the model.                                                    *)
(***************************************************************************)
MaxCommits     == 2   \* commit records in the store when a commit may still start
MaxRaceCommits == 1   \* the same, for an invocation that starts while another runs
MaxFaults      == 1   \* fs calls that fail for a reason outside the repository
MaxHistory     == 3   \* the same as MaxCommits, where every commit is of one file

Paths      == {"a.txt", "b.txt"}        \* command line arguments of add
Timestamps == {"T1"}                    \* values of new Date().toISOString()

\* command line arguments of commit, by the slot the invocation runs in
Messages(p) == IF p = 1 THEN {"m"} ELSE {"m", "n"}

(***************************************************************************)
(* Texts and JSON.                                                         *)
(***************************************************************************)
null == "<null>"                \* the JavaScript value null

Indent(d) == CASE d = 1 -> "  " [] d = 2 -> "    " [] d = 3 -> "      " [] OTHER -> ""

Whitespace == {"\n", " ", "  ", "    ", "      "}

\* the characters of a text: its tokens, concatenated
RECURSIVE Flatten(_)
Flatten(text) ==
    IF Len(text) = 0 THEN ""
    ELSE IF Len(text) = 1 THEN text[1]
    ELSE LET mid == Len(text) \div 2
         IN  Flatten(SubSeq(text, 1, mid)) \o Flatten(SubSeq(text, mid + 1, Len(text)))

IsToken(t) == t \notin Whitespace

\* the tokens of a JSON text that are not whitespace
StripWs(text) == SelectSeq(text, IsToken)

\* String.prototype.trim: drops leading and trailing whitespace
RECURSIVE TrimLeft(_)
TrimLeft(text) ==
    IF text # <<>> /\ Head(text) \in Whitespace THEN TrimLeft(Tail(text)) ELSE text

RECURSIVE TrimRight(_)
TrimRight(text) ==
    IF text # <<>> /\ text[Len(text)] \in Whitespace
    THEN TrimRight(SubSeq(text, 1, Len(text) - 1)) ELSE text

Trim(text) == TrimRight(TrimLeft(text))

\* a JSON string literal
Str(s) == <<"\"", s, "\"">>

\* the line break and indentation JSON.stringify(v, null, 2) writes at depth d
NL(pretty, d) ==
    IF ~pretty THEN <<>> ELSE IF d = 0 THEN <<"\n">> ELSE <<"\n", Indent(d)>>

Colon(pretty) == IF pretty THEN <<":", " ">> ELSE <<":">>

\* one entry {path, hash} of the index, written at depth d
EntryJson(e, pretty, d) ==
    <<"{">> \o NL(pretty, d + 1) \o Str("path") \o Colon(pretty) \o Str(e.path)
    \o <<",">> \o NL(pretty, d + 1) \o Str("hash") \o Colon(pretty) \o Str(e.hash)
    \o NL(pretty, d) \o <<"}">>

RECURSIVE EntriesJson(_, _, _)
EntriesJson(es, pretty, d) ==
    IF es = <<>> THEN <<>>
    ELSE NL(pretty, d) \o EntryJson(Head(es), pretty, d)
         \o (IF Len(es) > 1 THEN <<",">> ELSE <<>>)
         \o EntriesJson(Tail(es), pretty, d)

\* an array of entries, itself at depth d
ArrayJson(es, pretty, d) ==
    IF es = <<>> THEN <<"[", "]">>
    ELSE <<"[">> \o EntriesJson(es, pretty, d + 1) \o NL(pretty, d) \o <<"]">>

\* JSON.stringify(index) and JSON.stringify(index, null, 2)
IndexJson(index, pretty) == ArrayJson(index, pretty, 0)

\* JSON.stringify(commitData) and JSON.stringify(commitData, null, 2)
CommitJson(c, pretty) ==
    <<"{">> \o NL(pretty, 1) \o Str("timeStamp") \o Colon(pretty) \o Str(c.timeStamp)
    \o <<",">> \o NL(pretty, 1) \o Str("message") \o Colon(pretty) \o Str(c.message)
    \o <<",">> \o NL(pretty, 1) \o Str("files") \o Colon(pretty)
    \o ArrayJson(c.files, pretty, 1)
    \o <<",">> \o NL(pretty, 1) \o Str("parent") \o Colon(pretty)
    \o (IF c.parent = null THEN <<"null">> ELSE Str(c.parent))
    \o NL(pretty, 0) \o <<"}">>

(***************************************************************************)
(* JSON.parse, for the two shapes the program reads.  The tokens are read  *)
(* at the places the grammar puts them; a text is accepted when writing    *)
(* the value read gives back the text's tokens (whitespace aside).         *)
(***************************************************************************)
EntryTokens == 17   \* tokens of one compact entry {"path":"..","hash":".."}

\* the entries of a token sequence that starts right after "["
RECURSIVE ReadEntries(_, _)
ReadEntries(t, i) ==
    IF i + EntryTokens - 1 > Len(t) \/ t[i] # "{" THEN <<>>
    ELSE <<[path |-> t[i + 6], hash |-> t[i + 14]]>>
         \o (IF i + EntryTokens <= Len(t) /\ t[i + EntryTokens] = ","
             THEN ReadEntries(t, i + EntryTokens + 1) ELSE <<>>)

Failure == [ok |-> FALSE, value |-> <<>>]

ParseIndex(text) ==
    LET t  == StripWs(text)
        es == ReadEntries(t, 2)
    IN  IF t # <<>> /\ IndexJson(es, FALSE) = t
        THEN [ok |-> TRUE, value |-> es] ELSE Failure

ParseCommit(text) ==
    LET t  == StripWs(text)
        es == IF Len(t) >= 22 THEN ReadEntries(t, 23) ELSE <<>>
        \* the place of "]" closing files
        k  == 23 + Len(es) * EntryTokens + (IF es = <<>> THEN 0 ELSE Len(es) - 1)
        c  == [timeStamp |-> t[7], message |-> t[15], files |-> es,
               parent |-> IF t[k + 6] = "null" THEN null ELSE t[k + 7]]
    IN  IF Len(t) >= 22 /\ Len(t) >= k + 7 /\ CommitJson(c, FALSE) = t
        THEN [ok |-> TRUE, value |-> c] ELSE Failure

(***************************************************************************)
(* hashObject: SHA-1 of the text's characters, in hex.  The model keeps    *)
(* the digest symbolic: two digests are equal exactly when the hashed      *)
(* character strings are (SHA-1 collisions are not modelled).              *)
(***************************************************************************)
hashObject(content) == "sha1(" \o Flatten(content) \o ")"

(***************************************************************************)
(* Working tree files.  A file can hold any bytes, among them the text     *)
(* that JSON.stringify gives for a commit record.                          *)
(***************************************************************************)
CraftedPath == "c.json"

\* the record a commit of CraftedPath, staged with the content "hello", builds
\* in a repository without commits
CraftedCommit ==
    [timeStamp |-> CHOOSE t \in Timestamps : TRUE, message |-> "m",
     files |-> <<[path |-> CraftedPath, hash |-> hashObject(<<"hello">>)]>>,
     parent |-> null]

\* a file content: the characters of JSON.stringify(CraftedCommit)
Crafted == Flatten(CommitJson(CraftedCommit, FALSE))

\* what the working tree file of a path can hold when add reads it
Contents(path) ==
    CASE path = "a.txt" -> {"hello", "hello world"}
      [] path = CraftedPath -> {"hello", Crafted}
      [] OTHER -> {"hello"}

(***************************************************************************)
(* The state.                                                              *)
(***************************************************************************)
VARIABLES
    objectsDir,  \* whether .zit/objects (and with it .zit) exists
    files,       \* the files HEAD and index of .zit that exist -> their text
    objects,     \* the files of .zit/objects: file name (a digest) -> text
    cmd,         \* slot -> the command it runs, or "idle"
    pc,          \* slot -> position of the command thread
    ipc,         \* slot -> position of the init thread the constructor started
    loc,         \* slot -> the command's local variables
    out,         \* slot -> the console lines of the command thread
    iout,        \* slot -> the console lines of the init thread
    pre,         \* slot -> the repository as it was when the invocation started
    faults,      \* fs calls that may still fail for a reason outside the repository
    created      \* history: the ids of the commits reported as created, in order

vars == <<objectsDir, files, objects, cmd, pc, ipc, loc, out, iout, pre, faults,
          created>>

NoCommit == [timeStamp |-> "", message |-> "", files |-> <<>>, parent |-> null]

NoLocals ==
    [arg |-> "", data |-> <<>>, hash |-> "", index |-> <<>>, commit |-> NoCommit,
     cur |-> "", i |-> 0, content |-> <<>>, phash |-> "", visited |-> <<>>,
     reports |-> <<>>, wrote |-> 0]

Snapshot ==
    [objectsDir |-> objectsDir, files |-> files, objects |-> objects, faults |-> faults]

NoSnapshot == [objectsDir |-> FALSE, files |-> <<>>, objects |-> <<>>, faults |-> 0]

\* mutant: the file is opened with flag 'a', the text is added at its end
Put_Append(f, k, v) ==
    [n \in DOMAIN f \cup {k} |-> IF n # k THEN f[n] ELSE IF k \in DOMAIN f THEN f[k] \o v ELSE v]

\* a function with one more (or one replaced) mapping: fs.writeFile
Put(f, k, v) == [n \in DOMAIN f \cup {k} |-> IF n = k THEN v ELSE f[n]]

\* whether the next fs call fails for a reason outside the repository (EACCES,
\* EIO, ENOSPC ...): it can, while some of these failures are left
FaultChoice == IF faults > 0 THEN {FALSE, TRUE} ELSE {FALSE}

Bump(fault) == IF fault THEN faults - 1 ELSE faults

Say(p, lines) == out' = [out EXCEPT ![p] = @ \o lines]

Goto(p, l) == pc' = [pc EXCEPT ![p] = l]

Slots == {1, 2}   \* the invocations that can be running at once

InitState(failures) ==
    /\ objectsDir = FALSE
    /\ files = <<>>
    /\ objects = <<>>
    /\ cmd = [p \in Slots |-> "idle"]
    /\ pc = [p \in Slots |-> "done"]
    /\ ipc = [p \in Slots |-> "done"]
    /\ loc = [p \in Slots |-> NoLocals]
    /\ out = [p \in Slots |-> <<>>]
    /\ iout = [p \in Slots |-> <<>>]
    /\ pre = [p \in Slots |-> NoSnapshot]
    /\ faults = failures
    /\ created = <<>>

\* one invocation at a time, on a directory without .zit, and a file system
\* that fails a call only for what the repository holds (a missing file)
Init == InitState(0)

\* the same, on a file system that can fail any call
InitFault == InitState(MaxFaults)


(***************************************************************************)
(* The constructor and init (lines 12-28).                                 *)
(***************************************************************************)
\* the objects that read as commit records
CommitIds == {h \in DOMAIN objects : ParseCommit(objects[h]).ok}

\* an invocation none of whose fs calls has returned yet
Fresh(p) ==
    /\ cmd[p] # "idle"
    /\ ipc[p] = "mkdir"
    /\ pc[p] = (CASE cmd[p] = "add" -> "a_read" [] cmd[p] = "commit" -> "c_ridx"
                  [] cmd[p] = "log" -> "l_rhead" [] cmd[p] = "show" -> "s_rcommit"
                  [] OTHER -> "done")

\* Slot 1 runs invocations one after the other.  Slot 2 runs an invocation
\* next to the one of slot 1, and ends before slot 1 starts its next one:
\* invocations overlap in pairs.  Starting touches no file, so an invocation
\* that starts later than the other behaves as one that started with it and
\* made its first call later: slot 2 starts while slot 1 is still Fresh.
MayStart(p) ==
    /\ cmd[p] = "idle"
    /\ IF p = 1 THEN cmd[2] = "idle"
       ELSE Fresh(1) /\ Cardinality(CommitIds) < MaxRaceCommits

\* new Zit() followed by the command's first call: both threads start
Start(p, c, arg, first) ==
    /\ MayStart(p)
    /\ cmd' = [cmd EXCEPT ![p] = c]
    /\ pc' = [pc EXCEPT ![p] = first]
    /\ ipc' = [ipc EXCEPT ![p] = "mkdir"]
    /\ loc' = [loc EXCEPT ![p] = [NoLocals EXCEPT !.arg = arg]]
    /\ pre' = [pre EXCEPT ![p] = Snapshot]
    /\ UNCHANGED <<objectsDir, files, objects, out, iout, faults, created>>

\* line 21: fs.mkdir(objectsPath, {recursive: true})
InitMkdir(p) ==
    /\ ipc[p] = "mkdir"
    /\ objectsDir' = TRUE
    /\ ipc' = [ipc EXCEPT ![p] = "head"]
    /\ UNCHANGED <<files, objects, cmd, pc, loc, out, iout, pre, faults, created>>

\* mutant: the flag is 'w', the write replaces the file
Exclusive_Never(name) == FALSE

\* flag 'wx': the write fails when the file exists
Exclusive(name) == name \in DOMAIN files

\* lines 23-27: fs.writeFile(path, text, {flag: 'wx'}) inside init's try
InitCreate(p, at, name, text, then) ==
    /\ ipc[p] = at
    /\ \E fault \in (IF Exclusive(name) THEN {FALSE} ELSE FaultChoice) :
         /\ faults' = Bump(fault)
         /\ IF Exclusive(name) \/ fault
            THEN /\ iout' = [iout EXCEPT ![p] = @ \o <<"Already initialized .zit folder">>]
                 /\ ipc' = [ipc EXCEPT ![p] = "done"]
                 /\ files' = files
            ELSE /\ files' = Put(files, name, text)
                 /\ ipc' = [ipc EXCEPT ![p] = then]
                 /\ iout' = iout
    /\ UNCHANGED <<objectsDir, objects, cmd, pc, loc, out, pre, created>>

\* line 23
InitHead(p) == InitCreate(p, "head", "HEAD", <<>>, "index")

\* line 24
InitIndex(p) == InitCreate(p, "index", "index", IndexJson(<<>>, TRUE), "done")

\* Whether the calls the init thread of p still has to make change nothing:
\* mkdir of a directory that exists, and a 'wx' write of a file that exists.
\* HEAD and index are never removed, so this stays true once it is.  Such
\* calls read and write nothing another step writes or reads, so every
\* interleaving with them reaches the repository states of the interleaving
\* in which they return first: the command thread's steps are explored in
\* that order only (Settled).  On a repository that init still has to create,
\* all interleavings are explored.
InitIsNoOp(p) ==
    \/ ipc[p] = "mkdir" /\ objectsDir /\ "HEAD" \in DOMAIN files
    \/ ipc[p] = "head" /\ "HEAD" \in DOMAIN files
    \/ ipc[p] = "index" /\ "index" \in DOMAIN files

Settled(p) == ~InitIsNoOp(p)

\* the process ends when nothing is pending; the slot is free again
Exit(p) ==
    /\ cmd[p] # "idle"
    /\ pc[p] = "done"
    /\ ipc[p] = "done"
    /\ cmd' = [cmd EXCEPT ![p] = "idle"]
    /\ loc' = [loc EXCEPT ![p] = NoLocals]
    /\ out' = [out EXCEPT ![p] = <<>>]
    /\ iout' = [iout EXCEPT ![p] = <<>>]
    /\ pre' = [pre EXCEPT ![p] = NoSnapshot]
    /\ UNCHANGED <<objectsDir, files, objects, pc, ipc, faults, created>>

\* the command `init` (lines 237-240): the constructor alone
StartInit(p) == Start(p, "init", "", "done")

(***************************************************************************)
(* add (lines 34-54) and updateStagingArea (lines 56-71).                  *)
(***************************************************************************)
StartAdd(p) == \E f \in Paths : Start(p, "add", f, "a_read")

\* add called when the index holds no entry
StartAddOne(p) ==
    /\ "index" \in DOMAIN files => ParseIndex(files["index"]).value = <<>>
    /\ StartAdd(p)

\* add of a file whose content is chosen with the commit in mind
StartAddCrafted(p) == Start(p, "add", CraftedPath, "a_read")

AddFailed(p) == <<"Failed to add file " \o loc[p].arg>>

\* lines 36-39: read the working tree file (it may be missing) and hash it
AddRead(p) ==
    /\ cmd[p] = "add" /\ pc[p] = "a_read" /\ Settled(p)
    /\ \/ \E c \in Contents(loc[p].arg) :
            /\ loc' = [loc EXCEPT ![p].data = <<c>>, ![p].hash = hashObject(<<c>>)]
            /\ Say(p, <<"File Hash: " \o hashObject(<<c>>)>>)
            /\ Goto(p, "a_access")
       \/ /\ Say(p, AddFailed(p))
          /\ Goto(p, "done")
          /\ loc' = loc
    /\ UNCHANGED <<objectsDir, files, objects, cmd, ipc, iout, pre, faults, created>>

\* mutant: the check is dropped, every add writes its object
ObjectExists_Never(fileHash) == FALSE

\* line 43: fs.access(newHashedObjectPath) does not throw
ObjectExists(fileHash) == fileHash \in DOMAIN objects

\* lines 42-45
AddAccess(p) ==
    /\ cmd[p] = "add" /\ pc[p] = "a_access" /\ Settled(p)
    /\ IF ObjectExists(loc[p].hash)
       THEN Say(p, <<"File content already stored.">>) /\ Goto(p, "a_ridx")
       ELSE out' = out /\ Goto(p, "a_write")
    /\ UNCHANGED <<objectsDir, files, objects, cmd, ipc, loc, iout, pre, faults, created>>

\* line 46: fs.writeFile(newHashedObjectPath, fileData)
AddWrite(p) ==
    /\ cmd[p] = "add" /\ pc[p] = "a_write" /\ Settled(p)
    /\ \E fault \in (IF objectsDir THEN FaultChoice ELSE {FALSE}) :
         /\ faults' = Bump(fault)
         /\ IF ~objectsDir \/ fault
            THEN Say(p, AddFailed(p)) /\ Goto(p, "done") /\ objects' = objects /\ loc' = loc
            ELSE /\ objects' = Put(objects, loc[p].hash, loc[p].data)
                 /\ loc' = [loc EXCEPT ![p].wrote = @ + 1]
                 /\ Goto(p, "a_ridx")
                 /\ out' = out
    /\ UNCHANGED <<objectsDir, files, cmd, ipc, iout, pre, created>>

\* mutant: the entry is pushed without looking for the path
Upsert_Push(index, filePath, fileHash) ==
    Append(index, [path |-> filePath, hash |-> fileHash])

\* lines 61-66: replace the hash of the first entry of the path, or append
Upsert(index, filePath, fileHash) ==
    IF \E k \in 1..Len(index) : index[k].path = filePath
    THEN LET k == CHOOSE j \in 1..Len(index) :
                    /\ index[j].path = filePath
                    /\ \A l \in 1..(j - 1) : index[l].path # filePath
         IN  [index EXCEPT ![k].hash = fileHash]
    ELSE Append(index, [path |-> filePath, hash |-> fileHash])

\* lines 68-70 and 50: the failure is logged, and add goes on to report success
StagingFailed(p) ==
    <<"Failed to update staging area", "Added " \o loc[p].arg \o " to staging area.">>

\* lines 58-66: read and parse the index, update it in memory
AddReadIndex(p) ==
    /\ cmd[p] = "add" /\ pc[p] = "a_ridx" /\ Settled(p)
    /\ \E fault \in (IF "index" \in DOMAIN files THEN FaultChoice ELSE {FALSE}) :
         /\ faults' = Bump(fault)
         /\ IF "index" \notin DOMAIN files \/ fault \/ ~ParseIndex(files["index"]).ok
            THEN Say(p, StagingFailed(p)) /\ Goto(p, "done") /\ loc' = loc
            ELSE /\ loc' = [loc EXCEPT ![p].index =
                              Upsert(ParseIndex(files["index"]).value,
                                     loc[p].arg, loc[p].hash)]
                 /\ Goto(p, "a_widx")
                 /\ out' = out
    /\ UNCHANGED <<objectsDir, files, objects, cmd, ipc, iout, pre, created>>

\* line 67, then line 50
AddWriteIndex(p) ==
    /\ cmd[p] = "add" /\ pc[p] = "a_widx" /\ Settled(p)
    /\ \E fault \in FaultChoice :
         /\ faults' = Bump(fault)
         /\ IF fault
            THEN Say(p, StagingFailed(p)) /\ files' = files
            ELSE /\ files' = Put(files, "index", IndexJson(loc[p].index, TRUE))
                 /\ Say(p, <<"Added " \o loc[p].arg \o " to staging area.">>)
    /\ Goto(p, "done")
    /\ UNCHANGED <<objectsDir, objects, cmd, ipc, loc, iout, pre, created>>

(***************************************************************************)
(* commit (lines 73-101) and getCurrentHead (lines 103-110).               *)
(***************************************************************************)
StartCommit(p) ==
    /\ Cardinality(CommitIds) < MaxCommits
    /\ \E m \in Messages(p) : Start(p, "commit", m, "c_ridx")

\* a commit in a history of commits of one file each
StartCommitLong(p) ==
    /\ Cardinality(CommitIds) < MaxHistory
    /\ \E m \in Messages(p) : Start(p, "commit", m, "c_ridx")

CommitFailed == <<"Failed to create commit">>

\* mutant: the head read is dropped
HeadValue_Null(text) == null

\* line 106: head.trim() || null
HeadValue(text) ==
    LET head == Flatten(Trim(text)) IN IF head = "" THEN null ELSE head

\* lines 103-110: a HEAD that cannot be read is taken for "no commit yet"
getCurrentHead(fault) ==
    IF "HEAD" \notin DOMAIN files \/ fault THEN null ELSE HeadValue(files["HEAD"])

\* mutant: the empty check never fires
NothingToCommit_Never(index) == FALSE

\* line 77
NothingToCommit(index) == Len(index) = 0

\* lines 75-80
CommitReadIndex(p) ==
    /\ cmd[p] = "commit" /\ pc[p] = "c_ridx" /\ Settled(p)
    /\ \E fault \in (IF "index" \in DOMAIN files THEN FaultChoice ELSE {FALSE}) :
         /\ faults' = Bump(fault)
         /\ IF "index" \notin DOMAIN files \/ fault \/ ~ParseIndex(files["index"]).ok
            THEN Say(p, CommitFailed) /\ Goto(p, "done") /\ loc' = loc
            ELSE LET index == ParseIndex(files["index"]).value
                 IN  IF NothingToCommit(index)
                     THEN /\ Say(p, <<"Nothing to commit. Staging area is empty.">>)
                          /\ Goto(p, "done")
                          /\ loc' = loc
                     ELSE /\ loc' = [loc EXCEPT ![p].index = index]
                          /\ Goto(p, "c_rhead")
                          /\ out' = out
    /\ UNCHANGED <<objectsDir, files, objects, cmd, ipc, iout, pre, created>>

\* mutant: every commit is written as a root
commitData_Root(now, message, index, parentCommit) ==
    [timeStamp |-> now, message |-> message, files |-> index, parent |-> null]

\* lines 84-89
commitData(now, message, index, parentCommit) ==
    [timeStamp |-> now, message |-> message, files |-> index, parent |-> parentCommit]

\* line 91: the digest is taken of the compact text
commitHash(data) == hashObject(CommitJson(data, FALSE))

\* line 93: the text stored is the pretty one
commitText(data) == CommitJson(data, TRUE)

\* lines 82-91
CommitReadHead(p) ==
    /\ cmd[p] = "commit" /\ pc[p] = "c_rhead" /\ Settled(p)
    /\ \E fault \in (IF "HEAD" \in DOMAIN files THEN FaultChoice ELSE {FALSE}),
          now \in Timestamps :
         /\ faults' = Bump(fault)
         /\ LET data == commitData(now, loc[p].arg, loc[p].index, getCurrentHead(fault))
            IN  loc' = [loc EXCEPT ![p].commit = data, ![p].hash = commitHash(data)]
    /\ Goto(p, "c_wobj")
    /\ UNCHANGED <<objectsDir, files, objects, cmd, ipc, out, iout, pre, created>>

\* line 93
CommitWriteObject(p) ==
    /\ cmd[p] = "commit" /\ pc[p] = "c_wobj" /\ Settled(p)
    /\ \E fault \in (IF objectsDir THEN FaultChoice ELSE {FALSE}) :
         /\ faults' = Bump(fault)
         /\ IF ~objectsDir \/ fault
            THEN Say(p, CommitFailed) /\ Goto(p, "done") /\ objects' = objects /\ loc' = loc
            ELSE /\ objects' = Put(objects, loc[p].hash, commitText(loc[p].commit))
                 /\ loc' = [loc EXCEPT ![p].wrote = @ + 1]
                 /\ Goto(p, "c_whead")
                 /\ out' = out
    /\ UNCHANGED <<objectsDir, files, cmd, ipc, iout, pre, created>>

\* mutant: HEAD is truncated and nothing is written to it
headText_Empty(hash) == <<>>

\* line 94: the text written to HEAD is the commit's id
headText(hash) == <<hash>>

\* line 94
CommitWriteHead(p) ==
    /\ cmd[p] = "commit" /\ pc[p] = "c_whead" /\ Settled(p)
    /\ \E fault \in FaultChoice :
         /\ faults' = Bump(fault)
         /\ IF fault
            THEN Say(p, CommitFailed) /\ Goto(p, "done") /\ files' = files
            ELSE /\ files' = Put(files, "HEAD", headText(loc[p].hash))
                 /\ Goto(p, "c_widx")
                 /\ out' = out
    /\ UNCHANGED <<objectsDir, objects, cmd, ipc, loc, iout, pre, created>>

\* mutant: the index keeps its entries after the commit
clearedIndex_Kept(index) == index

\* line 95: the index a commit leaves behind is the empty array
clearedIndex(index) == <<>>

\* lines 95-97
CommitWriteIndex(p) ==
    /\ cmd[p] = "commit" /\ pc[p] = "c_widx" /\ Settled(p)
    /\ \E fault \in FaultChoice :
         /\ faults' = Bump(fault)
         /\ IF fault
            THEN Say(p, CommitFailed) /\ files' = files /\ created' = created
            ELSE /\ files' = Put(files, "index", IndexJson(clearedIndex(loc[p].index), TRUE))
                 /\ Say(p, <<"Commit successfully created: " \o loc[p].hash>>)
                 /\ created' = Append(created, loc[p].hash)
    /\ Goto(p, "done")
    /\ UNCHANGED <<objectsDir, objects, cmd, ipc, loc, iout, pre>>

(***************************************************************************)
(* log (lines 112-137), getCommitData (lines 197-206).                     *)
(***************************************************************************)
StartLog(p) == Start(p, "log", "", "l_rhead")

\* lines 114-118
LogReadHead(p) ==
    /\ cmd[p] = "log" /\ pc[p] = "l_rhead" /\ Settled(p)
    /\ \E fault \in (IF "HEAD" \in DOMAIN files THEN FaultChoice ELSE {FALSE}) :
         /\ faults' = Bump(fault)
         /\ LET currentCommitHash == getCurrentHead(fault)
            IN  IF currentCommitHash = null
                THEN Say(p, <<"No commits yet.">>) /\ Goto(p, "done") /\ loc' = loc
                ELSE /\ loc' = [loc EXCEPT ![p].cur = currentCommitHash]
                     /\ Goto(p, "l_rcommit")
                     /\ out' = out
    /\ UNCHANGED <<objectsDir, files, objects, cmd, ipc, iout, pre, created>>

\* mutant: the walk stays at the commit it has read
ParentOf_Self(currentCommitHash, data) == currentCommitHash

\* line 132: the walk goes on to the parent of the commit it has read
ParentOf(currentCommitHash, data) == data.parent

\* lines 120-133: one turn of the while loop
LogReadCommit(p) ==
    /\ cmd[p] = "log" /\ pc[p] = "l_rcommit" /\ Settled(p)
    /\ \E fault \in (IF loc[p].cur \in DOMAIN objects THEN FaultChoice ELSE {FALSE}) :
         /\ faults' = Bump(fault)
         /\ IF loc[p].cur \notin DOMAIN objects \/ fault
            THEN /\ Say(p, <<"Commit data for " \o loc[p].cur \o " not found.">>)
                 /\ Goto(p, "done")
                 /\ loc' = loc
            ELSE LET parsed == ParseCommit(objects[loc[p].cur])
                 IN  IF ~parsed.ok
                     THEN Say(p, <<"Failed to display log">>) /\ Goto(p, "done") /\ loc' = loc
                     ELSE /\ Say(p, <<"Commit: " \o loc[p].cur>>)
                          /\ loc' = [loc EXCEPT
                                ![p].visited = Append(@, [hash |-> loc[p].cur,
                                                          commit |-> parsed.value]),
                                ![p].cur = ParentOf(loc[p].cur, parsed.value)]
                          /\ Goto(p, IF ParentOf(loc[p].cur, parsed.value) = null
                                     THEN "done" ELSE "l_rcommit")
    /\ UNCHANGED <<objectsDir, files, objects, cmd, ipc, iout, pre, created>>

(***************************************************************************)
(* show (lines 139-195), getFileContent (lines 208-217).                   *)
(***************************************************************************)
NoSuchId == "0000"   \* a commit id given on the command line that names no object

nullText == <<null>>   \* what getFileContent returns for an object it cannot read

StartShow(p) == \E h \in CommitIds \cup {NoSuchId} : Start(p, "show", h, "s_rcommit")

\* lines 208-217
getFileContent(fileHash) ==
    IF fileHash \in DOMAIN objects THEN objects[fileHash] ELSE nullText

\* the loop goes on to the next file of the commit, or ends
NextFile(p) ==
    IF loc[p].i < Len(loc[p].commit.files) THEN "s_rfile" ELSE "done"

\* mutant: diffLines is given the two contents the other way round
Report_Swapped(p, kind, old, new) ==
    [path |-> loc[p].commit.files[loc[p].i].path, kind |-> kind, old |-> new, new |-> old]

\* one line of what show tells about a file: the verdict and, for a diff, the
\* two arguments of diffLines
Report(p, kind, old, new) ==
    [path |-> loc[p].commit.files[loc[p].i].path, kind |-> kind, old |-> old, new |-> new]

\* lines 140-147; JSON.parse of an object that is no commit record throws, and
\* nothing catches it
ShowReadCommit(p) ==
    /\ cmd[p] = "show" /\ pc[p] = "s_rcommit" /\ Settled(p)
    /\ IF loc[p].arg \notin DOMAIN objects
       THEN Say(p, <<"Commit not found">>) /\ Goto(p, "done") /\ loc' = loc
       ELSE LET parsed == ParseCommit(objects[loc[p].arg])
            IN  IF ~parsed.ok
                THEN Say(p, <<"SyntaxError">>) /\ Goto(p, "done") /\ loc' = loc
                ELSE /\ Say(p, <<"Changes in the commit are:">>)
                     /\ loc' = [loc EXCEPT ![p].commit = parsed.value, ![p].i = 0]
                     /\ Goto(p, IF Len(parsed.value.files) > 0 THEN "s_rfile" ELSE "done")
    /\ UNCHANGED <<objectsDir, files, objects, cmd, ipc, iout, pre, faults, created>>

\* lines 149-154 and 183-185: the next file of the commit and its content
ShowReadFile(p) ==
    /\ cmd[p] = "show" /\ pc[p] = "s_rfile" /\ Settled(p)
    /\ LET i       == loc[p].i + 1
           file    == loc[p].commit.files[i]
           content == getFileContent(file.hash)
           at      == [loc EXCEPT ![p].i = i, ![p].content = content]
       IN  /\ IF loc[p].commit.parent # null
              THEN /\ loc' = at
                   /\ Goto(p, "s_rparent")
                   /\ Say(p, <<"File: " \o file.path>>)
              ELSE /\ loc' = [at EXCEPT ![p].reports =
                                Append(@, [path |-> file.path, kind |-> "First commit",
                                           old |-> <<>>, new |-> content])]
                   /\ pc' = [pc EXCEPT ![p] =
                               IF i < Len(loc[p].commit.files) THEN "s_rfile" ELSE "done"]
                   /\ Say(p, <<"File: " \o file.path, "First commit">>)
    /\ UNCHANGED <<objectsDir, files, objects, cmd, ipc, iout, pre, faults, created>>

\* lines 156-163 and 189-191, 180-182: the parent commit and its entry of the path
ShowReadParent(p) ==
    /\ cmd[p] = "show" /\ pc[p] = "s_rparent" /\ Settled(p)
    /\ LET parent == loc[p].commit.parent
           path   == loc[p].commit.files[loc[p].i].path
       IN  IF parent \notin DOMAIN objects
           THEN Say(p, <<"Parent commit data not found">>) /\ Goto(p, NextFile(p)) /\ loc' = loc
           ELSE LET parsed == ParseCommit(objects[parent])
                IN  IF ~parsed.ok
                    THEN Say(p, <<"SyntaxError">>) /\ Goto(p, "done") /\ loc' = loc
                    ELSE LET fs == parsed.value.files
                         IN  IF \E k \in 1..Len(fs) : fs[k].path = path
                             THEN /\ loc' = [loc EXCEPT ![p].phash =
                                       fs[CHOOSE k \in 1..Len(fs) :
                                            /\ fs[k].path = path
                                            /\ \A l \in 1..(k - 1) : fs[l].path # path].hash]
                                  /\ Goto(p, "s_rpfile")
                                  /\ out' = out
                             ELSE /\ loc' = [loc EXCEPT ![p].reports =
                                       Append(@, Report(p, "New file in this commit",
                                                        <<>>, loc[p].content))]
                                  /\ Goto(p, NextFile(p))
                                  /\ Say(p, <<"New file in this commit">>)
    /\ UNCHANGED <<objectsDir, files, objects, cmd, ipc, iout, pre, faults, created>>

\* lines 192 and 165-179: diffLines(parentFileContent, fileContent); with a
\* content that could not be read (null) diffLines throws
ShowReadParentFile(p) ==
    /\ cmd[p] = "show" /\ pc[p] = "s_rpfile" /\ Settled(p)
    /\ LET parentFileContent == getFileContent(loc[p].phash)
       IN  IF parentFileContent = nullText \/ loc[p].content = nullText
           THEN Say(p, <<"TypeError">>) /\ Goto(p, "done") /\ loc' = loc
           ELSE /\ loc' = [loc EXCEPT ![p].reports =
                        Append(@, Report(p, "diff", parentFileContent, loc[p].content))]
                /\ Goto(p, NextFile(p))
                /\ Say(p, <<"diff">>)
    /\ UNCHANGED <<objectsDir, files, objects, cmd, ipc, iout, pre, faults, created>>

(***************************************************************************)
(* The specifications.                                                     *)
(***************************************************************************)
\* a step of the invocation in slot p: its start, an fs call of one of its two
\* threads returning, or its end
Step(p) ==
    \/ StartInit(p) \/ StartAdd(p) \/ StartCommit(p) \/ StartLog(p) \/ StartShow(p)
    \/ InitMkdir(p) \/ InitHead(p) \/ InitIndex(p) \/ Exit(p)
    \/ AddRead(p) \/ AddAccess(p) \/ AddWrite(p) \/ AddReadIndex(p) \/ AddWriteIndex(p)
    \/ CommitReadIndex(p) \/ CommitReadHead(p) \/ CommitWriteObject(p)
    \/ CommitWriteHead(p) \/ CommitWriteIndex(p)
    \/ LogReadHead(p) \/ LogReadCommit(p)
    \/ ShowReadCommit(p) \/ ShowReadFile(p) \/ ShowReadParent(p) \/ ShowReadParentFile(p)

\* the same, for the commands that write to the repository
Race(p) ==
    \/ StartAdd(p) \/ StartCommit(p)
    \/ InitMkdir(p) \/ InitHead(p) \/ InitIndex(p) \/ Exit(p)
    \/ AddRead(p) \/ AddAccess(p) \/ AddWrite(p) \/ AddReadIndex(p) \/ AddWriteIndex(p)
    \/ CommitReadIndex(p) \/ CommitReadHead(p) \/ CommitWriteObject(p)
    \/ CommitWriteHead(p) \/ CommitWriteIndex(p)

\* the same, for add alone
Adds(p) ==
    \/ StartAdd(p)
    \/ InitMkdir(p) \/ InitHead(p) \/ InitIndex(p) \/ Exit(p)
    \/ AddRead(p) \/ AddAccess(p) \/ AddWrite(p) \/ AddReadIndex(p) \/ AddWriteIndex(p)

\* invocations one after the other
Next == Step(1)

\* invocations of add, one after the other or two at once
NextAdds == Adds(1) \/ Adds(2)

\* invocations of add, on the file CraftedPath, and of commit, one after the
\* other
NextCraft ==
    \/ StartAddCrafted(1) \/ StartCommit(1)
    \/ InitMkdir(1) \/ InitHead(1) \/ InitIndex(1) \/ Exit(1)
    \/ AddRead(1) \/ AddAccess(1) \/ AddWrite(1) \/ AddReadIndex(1) \/ AddWriteIndex(1)
    \/ CommitReadIndex(1) \/ CommitReadHead(1) \/ CommitWriteObject(1)
    \/ CommitWriteHead(1) \/ CommitWriteIndex(1)

\* an invocation of add or commit running while another invocation runs
NextConc == Step(1) \/ Race(2)

\* one invocation at a time, the file system failing only for a missing file
Spec == Init /\ [][Next]_vars

\* one invocation at a time, on a file system that can fail any call
SpecFault == InitFault /\ [][Next]_vars

\* two invocations at once
SpecConc == Init /\ [][NextConc]_vars

\* invocations of add, two at once
SpecAdds == Init /\ [][NextAdds]_vars

\* one invocation at a time, of add on the file CraftedPath or of commit
SpecCraft == Init /\ [][NextCraft]_vars

\* invocations of add, commit and log, one after the other
NextLog ==
    \/ StartAdd(1) \/ StartCommit(1) \/ StartLog(1)
    \/ InitMkdir(1) \/ InitHead(1) \/ InitIndex(1) \/ Exit(1)
    \/ AddRead(1) \/ AddAccess(1) \/ AddWrite(1) \/ AddReadIndex(1) \/ AddWriteIndex(1)
    \/ CommitReadIndex(1) \/ CommitReadHead(1) \/ CommitWriteObject(1)
    \/ CommitWriteHead(1) \/ CommitWriteIndex(1)
    \/ LogReadHead(1) \/ LogReadCommit(1)

\* invocations of add, commit and show, one after the other, where add is
\* called when nothing is staged: every commit is of one file
NextLong ==
    \/ StartAddOne(1) \/ StartCommitLong(1) \/ StartShow(1)
    \/ InitMkdir(1) \/ InitHead(1) \/ InitIndex(1) \/ Exit(1)
    \/ AddRead(1) \/ AddAccess(1) \/ AddWrite(1) \/ AddReadIndex(1) \/ AddWriteIndex(1)
    \/ CommitReadIndex(1) \/ CommitReadHead(1) \/ CommitWriteObject(1)
    \/ CommitWriteHead(1) \/ CommitWriteIndex(1)
    \/ ShowReadCommit(1) \/ ShowReadFile(1) \/ ShowReadParent(1) \/ ShowReadParentFile(1)

\* when the step LogReadCommit(1) can be taken; it then changes pc or loc
LogReadCommitEnabled == cmd[1] = "log" /\ pc[1] = "l_rcommit" /\ Settled(1)

\* One invocation of add, commit or log at a time, where an fs call that init
\* or log has made returns in the end: weak fairness of their steps.  The
\* last conjunct is WF_vars(LogReadCommit(1)) written out, with the guard of
\* the step in the place of ENABLED <<LogReadCommit(1)>>_vars.
SpecLive ==
    /\ Init /\ [][NextLog]_vars
    /\ WF_vars(InitMkdir(1)) /\ WF_vars(InitHead(1)) /\ WF_vars(InitIndex(1))
    /\ WF_vars(LogReadHead(1))
    /\ ([]<>(~LogReadCommitEnabled) \/ []<><<LogReadCommit(1)>>_vars)

\* one invocation at a time, of add, commit or show, in histories of up to
\* MaxHistory commits of one file each
SpecLong == Init /\ [][NextLong]_vars

(***************************************************************************)
(* Properties.                                                             *)
(***************************************************************************)
\* the invocation in slot p ran command c and its command thread has returned
Done(p, c) == cmd[p] = c /\ pc[p] = "done"

LastLine(p) == IF out[p] = <<>> THEN "" ELSE out[p][Len(out[p])]

\* commit returned after printing line 97
Committed(p) ==
    Done(p, "commit") /\ LastLine(p) = "Commit successfully created: " \o loc[p].hash

\* the value of HEAD in a set of files: null when there is no HEAD or it is empty
HeadOf(fs) == IF "HEAD" \in DOMAIN fs THEN HeadValue(fs["HEAD"]) ELSE null

\* C1: a commit that succeeds has stored a record whose files are the index as
\* it was when the commit started and whose parent is the HEAD of that moment;
\* HEAD is the new commit's id and the index is the empty sequence.
C1_CommitPostcondition ==
    \A p \in Slots :
        Committed(p) =>
            LET h == loc[p].hash
            IN  /\ "index" \in DOMAIN pre[p].files
                /\ h \in DOMAIN objects
                /\ ParseCommit(objects[h]).ok
                /\ ParseCommit(objects[h]).value.files
                     = ParseIndex(pre[p].files["index"]).value
                /\ ParseCommit(objects[h]).value.files # <<>>
                /\ ParseCommit(objects[h]).value.parent = HeadOf(pre[p].files)
                /\ HeadOf(files) = h
                /\ ParseIndex(files["index"]) = [ok |-> TRUE, value |-> <<>>]

\* a second commit, of two files, has succeeded
C1_Witness ==
    /\ Committed(1)
    /\ loc[1].commit.parent # null
    /\ Len(loc[1].commit.files) = 2

\* C2: a commit called with an index of zero entries reports that there is
\* nothing to commit and leaves HEAD, the index and the objects as they were.
C2_EmptyCommitChangesNothing ==
    \A p \in Slots :
        ( /\ Done(p, "commit")
          /\ "index" \in DOMAIN pre[p].files
          /\ ParseIndex(pre[p].files["index"]) = [ok |-> TRUE, value |-> <<>>] )
        => /\ out[p] = <<"Nothing to commit. Staging area is empty.">>
           /\ files = pre[p].files
           /\ objects = pre[p].objects
           /\ objectsDir = pre[p].objectsDir

\* an empty commit has returned on a repository that holds a commit
C2_Witness ==
    /\ Done(1, "commit")
    /\ LastLine(1) = "Nothing to commit. Staging area is empty."
    /\ HeadOf(files) # null
    /\ CommitIds # {}

\* C3: after N successful commits, one after the other from an empty
\* directory, log visits exactly N records, the newest first, and the last one
\* visited is the only one whose parent is null.
C3_LogWalksTheChain ==
    \A p \in Slots :
        Done(p, "log") =>
            LET v == loc[p].visited
                n == Len(created)
            IN  /\ Len(v) = n
                /\ \A i \in 1..n :
                     /\ v[i].hash = created[n + 1 - i]
                     /\ (v[i].commit.parent = null) <=> (i = n)

\* log has returned after two commits
C3_Witness == Done(1, "log") /\ Len(created) = 2 /\ Len(loc[1].visited) = 2

\* commit returned through its catch (line 99)
CommitGaveUp(p) == Done(p, "commit") /\ LastLine(p) = "Failed to create commit"

\* the entries of the index in a set of files
IndexOf(fs) == IF "index" \in DOMAIN fs THEN ParseIndex(fs["index"]).value ELSE <<>>

\* C4: a commit that fails leaves HEAD and the index as they were when it
\* started.
C4_FailedCommitChangesNothing ==
    \A p \in Slots :
        CommitGaveUp(p) =>
            /\ HeadOf(files) = HeadOf(pre[p].files)
            /\ IndexOf(files) = IndexOf(pre[p].files)

Lines(p) == {out[p][k] : k \in 1..Len(out[p])}

\* add returned after line 50, and updateStagingArea did not go through its catch
Staged(p) ==
    /\ Done(p, "add")
    /\ LastLine(p) = "Added " \o loc[p].arg \o " to staging area."
    /\ "Failed to update staging area" \notin Lines(p)

HasPath(index, path) == \E k \in 1..Len(index) : index[k].path = path

\* C5: the index never holds two entries of one path; staging a path that has
\* an entry replaces that entry's digest in place, staging a path that has
\* none appends one entry, and the other entries stay as they are.
C5_IndexUniqueUpsert ==
    /\ "index" \in DOMAIN files =>
         /\ ParseIndex(files["index"]).ok
         /\ \A i, j \in 1..Len(IndexOf(files)) :
              i # j => IndexOf(files)[i].path # IndexOf(files)[j].path
    /\ \A p \in Slots :
         Staged(p) =>
            LET old == IndexOf(pre[p].files)
                new == IndexOf(files)
                f   == loc[p].arg
                h   == hashObject(loc[p].data)
            IN  IF HasPath(old, f)
                THEN /\ Len(new) = Len(old)
                     /\ \A k \in 1..Len(old) :
                          /\ new[k].path = old[k].path
                          /\ new[k].hash = IF old[k].path = f THEN h ELSE old[k].hash
                ELSE new = old \o <<[path |-> f, hash |-> h]>>

\* the first of two entries has been given another digest
C5_Witness ==
    /\ Staged(1)
    /\ Len(IndexOf(pre[1].files)) = 2
    /\ IndexOf(pre[1].files)[1].path = loc[1].arg
    /\ IndexOf(pre[1].files)[1].hash # loc[1].hash
    /\ IndexOf(files)[1].hash = loc[1].hash

\* C6: two adds of two different paths running at once both leave their entry
\* in the index.
C6_NoLostUpdate ==
    (Staged(1) /\ Staged(2) /\ loc[1].arg # loc[2].arg)
        => HasPath(IndexOf(files), loc[1].arg) /\ HasPath(IndexOf(files), loc[2].arg)

\* C7: every object is stored under the hash of its bytes.
C7_ObjectsHashToTheirName ==
    \A d \in DOMAIN objects : hashObject(objects[d]) = d

\* C8: an add of a content that is already stored gets the digest the stored
\* object has, writes no object (the content stays stored once), and still
\* puts the entry of its path in the index.
C8_SameContentStoredOnce ==
    \A p \in Slots :
        ( /\ Done(p, "add")
          /\ loc[p].data # <<>>
          /\ \E d \in DOMAIN pre[p].objects : pre[p].objects[d] = loc[p].data )
        => /\ \A d \in DOMAIN objects : objects[d] = loc[p].data => d = loc[p].hash
           /\ Cardinality({d \in DOMAIN objects : objects[d] = loc[p].data}) = 1
           /\ loc[p].wrote = 0
           /\ objects = pre[p].objects
           /\ Staged(p)
           /\ \E k \in 1..Len(IndexOf(files)) :
                IndexOf(files)[k] = [path |-> loc[p].arg, hash |-> loc[p].hash]

\* a content staged under one path has been added under the other path
C8_Witness ==
    /\ Staged(1)
    /\ loc[1].wrote = 0
    /\ ~HasPath(IndexOf(pre[1].files), loc[1].arg)
    /\ \E k \in 1..Len(IndexOf(pre[1].files)) :
         IndexOf(pre[1].files)[k].hash = loc[1].hash

Initialised == objectsDir /\ "HEAD" \in DOMAIN files /\ "index" \in DOMAIN files

\* C9: on an initialised repository no step of init changes the objects, HEAD
\* or the index.
C9_InitKeepsRepository ==
    [][ (Initialised /\ \E p \in Slots : InitMkdir(p) \/ InitHead(p) \/ InitIndex(p))
            => UNCHANGED <<objectsDir, files, objects>> ]_vars

\* the command init has run on a repository with a commit and a staged entry
C9_Witness ==
    /\ cmd[1] = "init" /\ ipc[1] = "done"
    /\ pre[1].objectsDir /\ DOMAIN pre[1].files = {"HEAD", "index"}
    /\ HeadOf(pre[1].files) # null
    /\ IndexOf(pre[1].files) # <<>>
    /\ Snapshot = pre[1]

\* C10: for a file of a commit, show reports no prior version exactly when the
\* commit has no parent or the parent has no entry of the path; otherwise it
\* diffs the content under the parent's digest of the path against the content
\* under the commit's digest of the path.
C10_ShowReports ==
    \A p \in Slots :
        (Done(p, "show") /\ loc[p].arg \in CommitIds) =>
            LET c      == ParseCommit(objects[loc[p].arg]).value
                r      == loc[p].reports
                pfiles == IF c.parent = null THEN <<>>
                          ELSE ParseCommit(objects[c.parent]).value.files
            IN  /\ Len(r) = Len(c.files)
                /\ \A i \in 1..Len(c.files) :
                     LET path == c.files[i].path
                         prior == c.parent # null /\ HasPath(pfiles, path)
                     IN  /\ r[i].path = path
                         /\ (r[i].kind \in {"First commit", "New file in this commit"})
                              <=> ~prior
                         /\ prior =>
                              /\ r[i].kind = "diff"
                              /\ \E k \in 1..Len(pfiles) :
                                   /\ pfiles[k].path = path
                                   /\ r[i].old = objects[pfiles[k].hash]
                                   /\ r[i].new = objects[c.files[i].hash]

\* show has reported a changed file and a new file of one commit
C10_Witness ==
    /\ Done(1, "show")
    /\ \E i, j \in 1..Len(loc[1].reports) :
         /\ loc[1].reports[i].kind = "diff"
         /\ loc[1].reports[i].old # loc[1].reports[i].new
         /\ loc[1].reports[j].kind = "New file in this commit"

\* C11: the value of HEAD changes only in the step of commit that writes HEAD
\* (line 94), which sets it to the id of the commit being created, and that
\* commit goes on to report success: an invocation of add, log, show or init,
\* and a commit that reports anything else, returns with HEAD as it was when
\* the invocation started.
C11_HeadChangesOnlyInCommit ==
    /\ [](\A p \in Slots :
            (cmd[p] # "idle" /\ pc[p] = "done" /\ HeadOf(files) # HeadOf(pre[p].files))
                => Committed(p))
    /\ [](\A p \in Slots : Committed(p) => HeadOf(files) = loc[p].hash)
    /\ [][ HeadOf(files') # HeadOf(files)
             => \E p \in Slots : CommitWriteHead(p) /\ HeadOf(files') = loc[p].hash ]_vars

\* add has staged a file on a repository whose HEAD holds a commit
C11_Witness ==
    /\ Staged(1)
    /\ ipc[1] = "done"
    /\ HeadOf(pre[1].files) \in CommitIds
    /\ HeadOf(files) = HeadOf(pre[1].files)

\* add returned after printing line 50
SaidAdded(p) ==
    Done(p, "add") /\ LastLine(p) = "Added " \o loc[p].arg \o " to staging area."

\* C12: when add ends by reporting that the path was added to the staging
\* area, the index holds the entry of the path with the digest of the content
\* add read.
C12_AddedMeansStaged ==
    \A p \in Slots :
        SaidAdded(p) =>
            \E k \in 1..Len(IndexOf(files)) :
                IndexOf(files)[k] = [path |-> loc[p].arg, hash |-> hashObject(loc[p].data)]

\* C13: an object, once stored, stays in the store with the bytes it was
\* stored with: no step removes an object or replaces its bytes.
C13_ObjectsAppendOnly ==
    [][ \A d \in DOMAIN objects : d \in DOMAIN objects' /\ objects'[d] = objects[d] ]_vars

HasEntry(index, path, hash) ==
    \E k \in 1..Len(index) : index[k] = [path |-> path, hash |-> hash]

\* C14: when an add and a commit that ran at once have both returned, the add
\* having staged its entry and the commit having created its record, the entry
\* is among the files of that record or still in the index.
C14_AddCommitKeepEntry ==
    \A pa, pb \in Slots :
        (pa # pb /\ Staged(pa) /\ Committed(pb)) =>
            \/ HasEntry(loc[pb].commit.files, loc[pa].arg, loc[pa].hash)
            \/ HasEntry(IndexOf(files), loc[pa].arg, loc[pa].hash)

\* add got as far as updateStagingArea: the object of its content is stored
StoredObject(p) == Done(p, "add") /\ "Added " \o loc[p].arg \o " to staging area." \in Lines(p)

C16_HeadAdvancesAlongChain ==
    [][ \A p \in Slots :
          (CommitWriteHead(p) /\ HeadOf(files') # HeadOf(files))
              => loc[p].commit.parent = HeadOf(files) ]_vars

\* C17: a commit record with parent null is created only in a repository whose
\* HEAD held no commit when the commit started.
C17_RootOnlyWithoutCommits ==
    \A p \in Slots :
        (Committed(p) /\ loc[p].commit.parent = null) => HeadOf(pre[p].files) = null

\* whether the walk from h along parent links ends, at null or at an object
\* that is no commit record, within n records
RECURSIVE WalkEnds(_, _)
WalkEnds(h, n) ==
    \/ h = null
    \/ h \notin DOMAIN objects
    \/ ~ParseCommit(objects[h]).ok
    \/ n > 0 /\ WalkEnds(ParseCommit(objects[h]).value.parent, n - 1)

\* the parent of every commit created is null or a commit created before it
ParentsAreEarlier ==
    \A i \in 1..Len(created) :
        LET parent == ParseCommit(objects[created[i]]).value.parent
        IN  parent = null \/ \E j \in 1..(i - 1) : created[j] = parent

\* log has visited no commit twice, and no more commits than the store holds
VisitsAreDistinct ==
    \A p \in Slots :
        /\ Len(loc[p].visited) <= Cardinality(CommitIds)
        /\ \A i, j \in 1..Len(loc[p].visited) :
             i # j => loc[p].visited[i].hash # loc[p].visited[j].hash

\* C18: the parent of every commit created is a commit created before it (or
\* null), so the walk from any object, and from HEAD, ends within as many
\* records as the store holds objects; log visits no commit twice; and every log that
\* starts returns.
C18_LogTerminates ==
    /\ []ParentsAreEarlier
    /\ [](\A h \in DOMAIN objects \cup {HeadOf(files)} : WalkEnds(h, Cardinality(DOMAIN objects)))
    /\ []VisitsAreDistinct
    /\ ((cmd[1] = "log") ~> Done(1, "log"))

\* log is at the second record of its walk
C18_Witness ==
    /\ cmd[1] = "log" /\ pc[1] = "l_rcommit"
    /\ Len(loc[1].visited) = 1
    /\ loc[1].cur \in CommitIds

\* C19: when init has completed, with every fs call it made failing only for
\* what the repository holds, the objects directory, HEAD and the index exist.
C19_InitCompletesLayout ==
    \A p \in Slots :
        (cmd[p] # "idle" /\ ipc[p] = "done" /\ faults = pre[p].faults) => Initialised

\* the record stored under a commit id
RecordOf(h) == ParseCommit(objects[h]).value

\* whether the commit h, or one of its ancestors up to n records back, has an
\* entry of the path
RECURSIVE Tracked(_, _, _)
Tracked(h, path, n) ==
    /\ h \in CommitIds
    /\ \/ HasPath(RecordOf(h).files, path)
       \/ n > 0 /\ Tracked(RecordOf(h).parent, path, n - 1)

\* C20: the files of a commit are the entries of the index as it was when the
\* commit started, and the commit leaves the index empty, so the entries of
\* the next commit are those staged after it; for a commit with a parent,
\* show reports a diff of a path only if the parent's own files hold the path,
\* and reports a path the parent's files do not hold as a new file, also when
\* an older ancestor holds it.
C20_ShowLooksAtParentOnly ==
    \A p \in Slots :
        /\ Committed(p) =>
              /\ loc[p].commit.files = IndexOf(pre[p].files)
              /\ IndexOf(files) = <<>>
        /\ (Done(p, "show") /\ loc[p].arg \in CommitIds
               /\ RecordOf(loc[p].arg).parent \in CommitIds) =>
              LET c == RecordOf(loc[p].arg)
                  q == RecordOf(c.parent)
                  r == loc[p].reports
              IN  /\ Len(r) = Len(c.files)
                  /\ \A i \in 1..Len(c.files) :
                       /\ r[i].kind = "diff" => HasPath(q.files, c.files[i].path)
                       /\ ~HasPath(q.files, c.files[i].path)
                            => r[i].kind = "New file in this commit"
                       /\ (Tracked(q.parent, c.files[i].path, MaxHistory)
                             /\ ~HasPath(q.files, c.files[i].path))
                            => r[i].kind = "New file in this commit"

\* show has reported as new a file that the parent's files do not hold and the
\* parent's parent's files do
C20_Witness ==
    /\ Done(1, "show")
    /\ loc[1].arg \in CommitIds
    /\ RecordOf(loc[1].arg).parent \in CommitIds
    /\ LET c == RecordOf(loc[1].arg)
           q == RecordOf(c.parent)
       IN  /\ q.parent \in CommitIds
           /\ \E i \in 1..Len(c.files) :
                /\ HasPath(RecordOf(q.parent).files, c.files[i].path)
                /\ ~HasPath(q.files, c.files[i].path)
                /\ Len(loc[1].reports) >= i
                /\ loc[1].reports[i].kind = "New file in this commit"

====
